---------------------------- MODULE Spec2Model ----------------------------
(***************************************************************************)
(* LocalPersona (src/main.py): an interactive agent that pairs a language  *)
(* model with local shell execution.  The model covers                     *)
(*   - TerminalTool.execute          (deny-list, shell call, formatting)   *)
(*   - ContextManager.get_relevant_context (keyword-triggered disclosure)  *)
(*   - AgentLLM.chat                 (backend reply -> returned value)     *)
(*   - run_agentic_session           (the REPL and its inner cycle)        *)
(*                                                                         *)
(* A text is a sequence of units.  A unit is a one-character string, or a  *)
(* whole literal of the source (a fixed message, the base prompt, the      *)
(* knowledge body) that no operation of the program looks inside.          *)
(*                                                                         *)
(* What the program reads from outside is drawn nondeterministically:      *)
(* each input() call (a line, KeyboardInterrupt, EOFError), each backend   *)
(* reply and each shell outcome.  Signals arriving while the process is    *)
(* not blocked in input() are outside the model.                           *)
(***************************************************************************)
EXTENDS Integers, Sequences, FiniteSets, TLC

VARIABLES
    pc,                \* position of run_agentic_session
    history,           \* main.py:135  persisted history
    messages,          \* main.py:159  working transcript
    user_input,        \* main.py:139
    response,          \* main.py:173
    cmd,               \* main.py:185
    confirm,           \* main.py:189
    execution_result,  \* main.py:191
    turnHist,          \* history: the value of `history` when the turn began
    prompts,           \* history: commands printed by the confirmation prompt
    execLog,           \* history: arguments of the calls of TerminalTool.execute
    shellLog,          \* history: arguments of the calls of subprocess.run
    nLines,            \* history: lines returned by input() at "User> "
    nAnswers,          \* history: lines returned by input() at "[y/n] > "
    nCalls,            \* history: calls of AgentLLM.chat
    fn,                \* which function a function-level specification applies
    arg,               \* its argument
    env,               \* the outcome the shell will produce (execute only)
    res,               \* its result
    done               \* whether the function has been applied

vars == <<pc, history, messages, user_input, response, cmd, confirm,
          execution_result, turnHist, prompts, execLog, shellLog,
          nLines, nAnswers, nCalls, fn, arg, env, res, done>>

sessionVars == <<pc, history, messages, user_input, response, cmd, confirm,
                 execution_result, turnHist, prompts, execLog,
                 nLines, nAnswers, nCalls>>

fnVars == <<fn, arg, env, res, done>>

-----------------------------------------------------------------------------
(* Bounds of the model.                                                    *)

\* lines the human enters at "User> " that start a turn
MaxTurns == 2
\* answers the human gives at "[y/n] > "
MaxConfirms == 2
\* calls of AgentLLM.chat after which the human enters nothing more
MaxCalls == 4
\* chunks of a text handed to the action-tag search
MaxParseChunks == 6
\* chunks of a text handed to get_relevant_context
MaxSelectChunks == 3
\* chunks of a command handed to TerminalTool.execute
MaxCmdChunks == 3

-----------------------------------------------------------------------------
(* Python string primitives, on texts.                                     *)

Min(S) == CHOOSE x \in S : \A y \in S : x <= y
Max(S) == CHOOSE x \in S : \A y \in S : x >= y

UpperLetters == <<"A","B","C","D","E","F","G","H","I","J","K","L","M",
                  "N","O","P","Q","R","S","T","U","V","W","X","Y","Z">>
LowerLetters == <<"a","b","c","d","e","f","g","h","i","j","k","l","m",
                  "n","o","p","q","r","s","t","u","v","w","x","y","z">>

\* str.lower() on one character
LowerChar(c) ==
    IF \E i \in 1..26 : UpperLetters[i] = c
    THEN LowerLetters[CHOOSE i \in 1..26 : UpperLetters[i] = c]
    ELSE c

\* str.lower()
Lower(s) == [i \in 1..Len(s) |-> LowerChar(s[i])]

\* the characters str.strip() removes and the regex class \s matches
IsSpace(c) == c \in {" ", "\n", "\t", "\r"}

\* p occurs in t at position i
StartsAt(t, i, p) ==
    /\ i >= 1
    /\ i + Len(p) - 1 <= Len(t)
    /\ \A k \in 1..Len(p) : t[i + k - 1] = p[k]

\* Python's `p in t`
Contains(t, p) == \E i \in 1..(Len(t) - Len(p) + 1) : StartsAt(t, i, p)

\* t[a..b] is whitespace only (true of an empty range)
AllSpace(t, a, b) == \A k \in a..b : IsSpace(t[k])

\* str.strip()
Strip(s) ==
    LET keep == {i \in 1..Len(s) : ~IsSpace(s[i])}
    IN  IF keep = {} THEN <<>> ELSE SubSeq(s, Min(keep), Max(keep))

\* concatenation of a sequence of texts
RECURSIVE Flatten(_)
Flatten(ss) == IF ss = <<>> THEN <<>> ELSE Head(ss) \o Flatten(Tail(ss))

\* all sequences over S of length n, and of length at most n
SeqsOfLen(S, n) == [1..n -> S]
SeqsUpTo(S, n) == UNION {SeqsOfLen(S, k) : k \in 0..n}

-----------------------------------------------------------------------------
(* The action tag: re.search(r'\[\[EXEC:\s*(.*?)\s*\]\]', response,         *)
(* re.DOTALL) and match.group(1).strip()  (main.py:182-185).               *)

OpenMarker == <<"[", "[", "E", "X", "E", "C", ":">>
CloseMarker == <<"]", "]">>

NoMatch == [matched |-> FALSE, group1 |-> <<>>]

\* what `.` matches under re.DOTALL: every character
DotMatches(c) == TRUE

\* (variant) the group written greedy, (.*): it runs to the last closing marker
MatchAt_Greedy(t, i) ==
    IF ~StartsAt(t, i, OpenMarker) THEN NoMatch
    ELSE
      LET from == i + Len(OpenMarker)
          closes == {e \in from..Len(t) : StartsAt(t, e, CloseMarker)}
          Ends(p) == {j \in p..(Len(t) + 1) :
                        \E e \in closes : e >= j /\ AllSpace(t, j, e - 1)}
          starts == {p \in from..(Len(t) + 1) :
                        AllSpace(t, from, p - 1) /\ Ends(p) # {}}
      IN  IF starts = {} THEN NoMatch
          ELSE LET p == Max(starts)
                   j == Max(Ends(p))
               IN  [matched |-> TRUE, group1 |-> SubSeq(t, p, j - 1)]

\* The match of the pattern anchored at i, or NoMatch.  The backtracking
\* order of the pattern: the leading \s* is greedy (the longest run that
\* still lets the rest match), the group is lazy (the shortest that still
\* lets the rest match), then \s* and the closing marker.
MatchAt(t, i) ==
    IF ~StartsAt(t, i, OpenMarker) THEN NoMatch
    ELSE
      LET from == i + Len(OpenMarker)
          closes == {e \in from..Len(t) : StartsAt(t, e, CloseMarker)}
          \* where the group may end when it starts at p
          Ends(p) == {j \in p..(Len(t) + 1) :
                        /\ \A k \in p..(j - 1) : DotMatches(t[k])
                        /\ \E e \in closes : e >= j /\ AllSpace(t, j, e - 1)}
          starts == {p \in from..(Len(t) + 1) :
                        AllSpace(t, from, p - 1) /\ Ends(p) # {}}
      IN  IF starts = {} THEN NoMatch
          ELSE LET p == Max(starts)
                   j == Min(Ends(p))
               IN  [matched |-> TRUE, group1 |-> SubSeq(t, p, j - 1)]

\* re.search: the match at the leftmost position that has one
ReSearch(t) ==
    LET at == {i \in 1..Len(t) : MatchAt(t, i).matched}
    IN  IF at = {} THEN NoMatch ELSE MatchAt(t, Min(at))

\* main.py:184-185: the directive of a response, if any
ParseAction(t) ==
    LET m == ReSearch(t)
    IN  IF m.matched THEN [matched |-> TRUE, cmd |-> Strip(m.group1)]
        ELSE [matched |-> FALSE, cmd |-> <<>>]

-----------------------------------------------------------------------------
(* TerminalTool.execute  (main.py:43-69).                                  *)

\* main.py:45: the deny-listed literals
DenyList ==
    << <<"r", "m", " ", "-", "r", "f", " ", "/">>,
       <<":", "(", ")", "{", " ", ":", "|", ":", "&", " ", "}", ";", ":">> >>

BlockedMsg == <<"Error: High-risk command blocked by safety filter.">>
TimeoutMsg == <<"Error: Command timed out after 30 seconds.">>

\* (variant) the command compared with the literals instead of searched
DenyListed_Exact(command) == \E k \in 1..Len(DenyList) : command = DenyList[k]

\* main.py:45: any(x in command for x in [...])
DenyListed(command) == \E k \in 1..Len(DenyList) : Contains(command, DenyList[k])

\* An outcome of subprocess.run(command, shell=True, capture_output=True,
\* text=True, timeout=30): it returns a CompletedProcess, raises
\* TimeoutExpired, or raises another Exception (str(e) = msg).
Completed(rc, out, err) ==
    [kind |-> "completed", returncode |-> rc, stdout |-> out, stderr |-> err,
     msg |-> ""]
TimedOut ==
    [kind |-> "timeout", returncode |-> 0, stdout |-> <<>>, stderr |-> <<>>,
     msg |-> ""]
Raised(m) ==
    [kind |-> "exception", returncode |-> 0, stdout |-> <<>>, stderr |-> <<>>,
     msg |-> m]

\* (variant) the output tested for emptiness without strip()
FormatCompleted_NoStrip(o) ==
    IF o.returncode # 0
    THEN <<"Execution Error (Exit Code ", ToString(o.returncode), "):\n">>
         \o o.stderr
    ELSE IF o.stdout # <<>>
         THEN o.stdout
         ELSE <<"Command executed successfully (no output). Stderr: ">>
              \o o.stderr

\* main.py:57-64: the text returned for a completed process
FormatCompleted(o) ==
    LET output == o.stdout
        errors == o.stderr
    IN  IF o.returncode # 0
        THEN <<"Execution Error (Exit Code ", ToString(o.returncode), "):\n">>
             \o errors
        ELSE IF Strip(output) # <<>>
             THEN output
             ELSE <<"Command executed successfully (no output). Stderr: ">>
                  \o errors

\* main.py:48-69: the shell call and what is made of its outcome
RunShell(o) ==
    CASE o.kind = "completed" -> FormatCompleted(o)
      [] o.kind = "timeout"   -> TimeoutMsg
      [] OTHER                -> <<"Error executing command: ", o.msg>>

\* main.py:43-69: result is the text returned, shell the commands handed to
\* subprocess.run by this call
TerminalExecute(command, o) ==
    IF DenyListed(command)
    THEN [result |-> BlockedMsg, shell |-> <<>>]
    ELSE [result |-> RunShell(o), shell |-> <<command>>]

-----------------------------------------------------------------------------
(* ContextManager.get_relevant_context  (main.py:78-87).                   *)

\* main.py:17-34: the registry, in dict order
KNOWLEDGE_BASE ==
    << [name |-> "BashScriptMaster",
        triggers |-> << <<"b", "a", "s", "h">>,
                     <<"s", "h", "e", "l", "l">>,
                     <<"s", "c", "r", "i", "p", "t">>,
                     <<"l", "o", "o", "p">>,
                     <<"v", "a", "r", "i", "a", "b", "l", "e">>,
                     <<"p", "i", "p", "e">>,
                     <<"s", "e", "d">>,
                     <<"a", "w", "k">>,
                     <<"g", "r", "e", "p">>,
                     <<"a", "u", "t", "o", "m", "a", "t", "i", "o", "n">> >>,
        content |-> "KNOWLEDGE_BASE['BashScriptMaster']['content']"] >>

\* main.py:84: any(trigger in input_lower for trigger in data['triggers'])
AnyTrigger(input_lower, data) ==
    \E k \in 1..Len(data.triggers) : Contains(input_lower, data.triggers[k])

\* main.py:83-85: the loop over the registry, from entry n on
RECURSIVE Disclose(_, _)
Disclose(input_lower, n) ==
    IF n > Len(KNOWLEDGE_BASE) THEN <<>>
    ELSE (IF AnyTrigger(input_lower, KNOWLEDGE_BASE[n])
          THEN <<"\n", KNOWLEDGE_BASE[n].content, "\n">>
          ELSE <<>>)
         \o Disclose(input_lower, n + 1)

\* (variant) the input searched as typed, without lower()
get_relevant_context_NoLower(input) == Disclose(input, 1)

\* main.py:78-87
get_relevant_context(input) == Disclose(Lower(input), 1)

-----------------------------------------------------------------------------
(* AgentLLM.chat  (main.py:94-110).                                        *)

\* a value that is not a str (the JSON null at choices[0].message.content)
PyNone == <<"None">>
IsStr(v) == v # PyNone

ConnectMsg ==
    <<"Error: Could not connect to LLM. Is it running on localhost:8080?">>

\* What requests.post and the lookup of the body produce: the value found at
\* choices[0].message.content, a ConnectionError, or another Exception
\* (a timeout, raise_for_status on a non-2xx status, a body that is not
\* JSON or lacks the path), with str(e) = msg.
Replied(content) == [kind |-> "ok", content |-> content, msg |-> ""]
Unreachable == [kind |-> "connection_error", content |-> <<>>, msg |-> ""]
Failed(m) == [kind |-> "exception", content |-> <<>>, msg |-> m]

\* main.py:102-110
AgentLLM_chat(reply) ==
    CASE reply.kind = "ok"               -> reply.content
      [] reply.kind = "connection_error" -> ConnectMsg
      [] OTHER                           -> <<"Error: ", reply.msg>>

-----------------------------------------------------------------------------
(* What the session reads from outside.                                    *)

\* lines typed at "User> ": an exit keyword in two spellings, the empty
\* line, and a line that holds both an action tag and (in mixed case) a
\* trigger of the knowledge base
TaggedLine ==
    <<"[", "[", "E", "X", "E", "C", ":", " ", "S", "e", "d", "]", "]">>
UserLines == { <<"e", "x", "i", "t">>, <<"Q">>, <<>>, TaggedLine }

\* lines typed at "[y/n] > ": the affirmative token in both cases, the
\* negative token, a longer affirmative word, the empty line and an exit
\* keyword
ConfirmLines ==
    { <<"y">>, <<"Y">>, <<"n">>, <<"y", "e", "s">>, <<>>, <<"q">> }

\* texts a backend generates: a final answer, a directive padded with
\* whitespace, two directives of which the first is deny-listed
FinalAnswer == <<"o", "k">>
OneDirective ==
    <<"[", "[", "E", "X", "E", "C", ":", " ", "a", " ", "\n", "]", "]">>
TwoDirectives ==
    <<"[", "[", "E", "X", "E", "C", ":", " ", "r", "m", " ", "-", "r", "f", " ", "/", "]", "]">>
    \o <<"[", "[", "E", "X", "E", "C", ":", " ", "b", "]", "]">>

\* backend replies: the three texts, a body whose content is null, a
\* refused connection, and a non-2xx status (raise_for_status)
ServerError == "500 Server Error: Internal Server Error for url: API_URL"
BackendReplies ==
    { Replied(FinalAnswer), Replied(OneDirective), Replied(TwoDirectives),
      Replied(PyNone), Unreachable, Failed(ServerError) }

\* shell outcomes: output that itself holds an action tag, a failure, and
\* a command that runs past the timeout
TaggedOutput ==
    <<"[", "[", "E", "X", "E", "C", ":", " ", "b", "]", "]", "\n">>
ShellOutcomes ==
    { Completed(0, TaggedOutput, <<>>), Completed(3, <<>>, <<"e">>), TimedOut }

-----------------------------------------------------------------------------
(* run_agentic_session  (main.py:114-211).                                 *)

\* main.py:143
ExitKeywords == { <<"e", "x", "i", "t">>, <<"q", "u", "i", "t">>, <<"q">> }

\* main.py:118-128
base_system_prompt == <<"base_system_prompt">>

Msg(role, content) == [role |-> role, content |-> content]

\* main.py:149-154
SystemMessage(input) ==
    LET specialized_context == get_relevant_context(input)
    IN  IF specialized_context # <<>>
        THEN base_system_prompt \o <<"\n\n--- ACTIVE KNOWLEDGE ---\n">>
             \o specialized_context
        ELSE base_system_prompt

\* main.py:201-202
Observation(result) == Msg("user", <<"COMMAND OUTPUT:\n">> \o result)

DeniedMsg == <<"User denied execution.">>

\* turns begun so far: one user message of the history each
Turns == Cardinality({i \in 1..Len(history) : history[i].role = "user"})

\* run_agentic_session before its first input() (main.py:115-135)
SessionStart ==
    /\ pc = "AWAITING_USER_INPUT"
    /\ history = <<>>
    /\ messages = <<>>
    /\ user_input = <<>>
    /\ response = <<>>
    /\ cmd = <<>>
    /\ confirm = <<>>
    /\ execution_result = <<>>
    /\ turnHist = <<>>
    /\ prompts = <<>>
    /\ execLog = <<>>
    /\ shellLog = <<>>
    /\ nLines = 0
    /\ nAnswers = 0
    /\ nCalls = 0

Init ==
    /\ SessionStart
    /\ fn = "session"
    /\ arg = <<>>
    /\ env = TimedOut
    /\ res = <<>>
    /\ done = FALSE

\* (variant) the line compared as typed, without lower()
IsExit_CaseSensitive(line) == line \in ExitKeywords

\* main.py:143: user_input.lower() in ['exit', 'quit', 'q']
IsExit(line) == Lower(line) \in ExitKeywords

\* (variant) the transcript of the turn before is kept and extended
BuildMessages_Carry(line) ==
    IF messages = <<>>
    THEN <<Msg("system", SystemMessage(line)), Msg("user", line)>>
    ELSE Append(messages, Msg("user", line))

\* main.py:159-165: the working transcript of a new turn
BuildMessages(line) ==
    <<Msg("system", SystemMessage(line))>> \o history \o <<Msg("user", line)>>

\* main.py:139-168: a line is read at "User> "
ReadUserInput(line) ==
    /\ pc = "AWAITING_USER_INPUT"
    /\ IsExit(line) \/ (Turns < MaxTurns /\ nCalls < MaxCalls)
    /\ user_input' = line
    /\ nLines' = nLines + 1
    /\ IF IsExit(line)
       THEN /\ pc' = "TERMINATED"
            /\ UNCHANGED <<history, messages, turnHist>>
       ELSE /\ messages' = BuildMessages(line)
            /\ history' = Append(history, Msg("user", line))
            /\ turnHist' = history
            /\ pc' = "CONTEXT_BUILT"
    /\ UNCHANGED <<response, cmd, confirm, execution_result, prompts,
                   execLog, shellLog, nAnswers, nCalls, fnVars>>

\* main.py:140-141: KeyboardInterrupt at "User> " leaves the loop
UserPromptInterrupt ==
    /\ pc = "AWAITING_USER_INPUT"
    /\ pc' = "TERMINATED"
    /\ UNCHANGED <<history, messages, user_input, response, cmd, confirm,
                   execution_result, turnHist, prompts, execLog, shellLog,
                   nLines, nAnswers, nCalls, fnVars>>

\* main.py:139: EOFError at "User> " is not handled
UserPromptEOF ==
    /\ pc = "AWAITING_USER_INPUT"
    /\ pc' = "CRASHED"
    /\ UNCHANGED <<history, messages, user_input, response, cmd, confirm,
                   execution_result, turnHist, prompts, execLog, shellLog,
                   nLines, nAnswers, nCalls, fnVars>>

\* (variant) the response is appended to the working transcript only
ChatModel_TranscriptOnly(reply) ==
    /\ pc \in {"CONTEXT_BUILT", "OBSERVATION_APPENDED"}
    /\ response' = AgentLLM_chat(reply)
    /\ messages' = Append(messages, Msg("assistant", response'))
    /\ nCalls' = nCalls + 1
    /\ pc' = "MODEL_CALLED"
    /\ UNCHANGED <<history, user_input, cmd, confirm, execution_result,
                   turnHist, prompts, execLog, shellLog, nLines, nAnswers,
                   fnVars>>

\* main.py:173-178: the model is called with the working transcript
ChatModel(reply) ==
    /\ pc \in {"CONTEXT_BUILT", "OBSERVATION_APPENDED"}
    /\ response' = AgentLLM_chat(reply)
    /\ history' = Append(history, Msg("assistant", response'))
    /\ messages' = Append(messages, Msg("assistant", response'))
    /\ nCalls' = nCalls + 1
    /\ pc' = "MODEL_CALLED"
    /\ UNCHANGED <<user_input, cmd, confirm, execution_result, turnHist,
                   prompts, execLog, shellLog, nLines, nAnswers, fnVars>>

\* (variant) the directive is searched in the user's line as well as in the
\* response
ParseResponse_WithInput ==
    /\ pc = "MODEL_CALLED"
    /\ \/ /\ ~IsStr(response)
          /\ pc' = "CRASHED"
          /\ UNCHANGED <<cmd, prompts>>
       \/ /\ IsStr(response)
          /\ ParseAction(user_input \o response).matched
          /\ cmd' = ParseAction(user_input \o response).cmd
          /\ prompts' = Append(prompts, cmd')
          /\ pc' = "ACTION_PENDING"
       \/ /\ IsStr(response)
          /\ ~ParseAction(user_input \o response).matched
          /\ pc' = "TURN_DONE"
          /\ UNCHANGED <<cmd, prompts>>
    /\ UNCHANGED <<history, messages, user_input, response, confirm,
                   execution_result, turnHist, execLog, shellLog, nLines,
                   nAnswers, nCalls, fnVars>>

\* (variant) the inner loop gives up after one proposed command per session:
\* a further directive ends the turn
ParseResponse_Capped ==
    /\ pc = "MODEL_CALLED"
    /\ \/ /\ ~IsStr(response)
          /\ pc' = "CRASHED"
          /\ UNCHANGED <<cmd, prompts>>
       \/ /\ IsStr(response)
          /\ ParseAction(response).matched
          /\ prompts = <<>>
          /\ cmd' = ParseAction(response).cmd
          /\ prompts' = Append(prompts, cmd')
          /\ pc' = "ACTION_PENDING"
       \/ /\ IsStr(response)
          /\ ~ParseAction(response).matched \/ prompts # <<>>
          /\ pc' = "TURN_DONE"
          /\ UNCHANGED <<cmd, prompts>>
    /\ UNCHANGED <<history, messages, user_input, response, confirm,
                   execution_result, turnHist, execLog, shellLog, nLines,
                   nAnswers, nCalls, fnVars>>

\* main.py:182-188 and 209-211: the response is searched for a directive;
\* re.search raises TypeError on a value that is not a str
ParseResponse ==
    /\ pc = "MODEL_CALLED"
    /\ \/ /\ ~IsStr(response)
          /\ pc' = "CRASHED"
          /\ UNCHANGED <<cmd, prompts>>
       \/ /\ IsStr(response)
          /\ ParseAction(response).matched
          /\ cmd' = ParseAction(response).cmd
          /\ prompts' = Append(prompts, cmd')
          /\ pc' = "ACTION_PENDING"
       \/ /\ IsStr(response)
          /\ ~ParseAction(response).matched
          /\ pc' = "TURN_DONE"
          /\ UNCHANGED <<cmd, prompts>>
    /\ UNCHANGED <<history, messages, user_input, response, confirm,
                   execution_result, turnHist, execLog, shellLog, nLines,
                   nAnswers, nCalls, fnVars>>

\* main.py:211 and 137: the inner loop is left, the outer loop goes round
EndTurn ==
    /\ pc = "TURN_DONE"
    /\ pc' = "AWAITING_USER_INPUT"
    /\ UNCHANGED <<history, messages, user_input, response, cmd, confirm,
                   execution_result, turnHist, prompts, execLog, shellLog,
                   nLines, nAnswers, nCalls, fnVars>>

\* (variant) the gate written as `if confirm.startswith('y')`
Confirm_Prefix(line) ==
    /\ pc = "ACTION_PENDING"
    /\ nAnswers < MaxConfirms /\ nCalls < MaxCalls
    /\ confirm' = Lower(line)
    /\ nAnswers' = nAnswers + 1
    /\ pc' = IF StartsAt(confirm', 1, <<"y">>) THEN "CONFIRMED" ELSE "DENIED"
    /\ UNCHANGED <<history, messages, user_input, response, cmd,
                   execution_result, turnHist, prompts, execLog, shellLog,
                   nLines, nCalls, fnVars>>

\* (variant) the gate written as `if confirm != 'n'`
Confirm_FailOpen(line) ==
    /\ pc = "ACTION_PENDING"
    /\ nAnswers < MaxConfirms /\ nCalls < MaxCalls
    /\ confirm' = Lower(line)
    /\ nAnswers' = nAnswers + 1
    /\ pc' = IF confirm' = <<"n">> THEN "DENIED" ELSE "CONFIRMED"
    /\ UNCHANGED <<history, messages, user_input, response, cmd,
                   execution_result, turnHist, prompts, execLog, shellLog,
                   nLines, nCalls, fnVars>>

\* main.py:189-192: a line is read at "[y/n] > "
Confirm(line) ==
    /\ pc = "ACTION_PENDING"
    /\ nAnswers < MaxConfirms /\ nCalls < MaxCalls
    /\ confirm' = Lower(line)
    /\ nAnswers' = nAnswers + 1
    /\ pc' = IF confirm' = <<"y">> THEN "CONFIRMED" ELSE "DENIED"
    /\ UNCHANGED <<history, messages, user_input, response, cmd,
                   execution_result, turnHist, prompts, execLog, shellLog,
                   nLines, nCalls, fnVars>>

\* main.py:189: KeyboardInterrupt or EOFError at "[y/n] > " is not handled
ConfirmPromptAbort ==
    /\ pc = "ACTION_PENDING"
    /\ pc' = "CRASHED"
    /\ UNCHANGED <<history, messages, user_input, response, cmd, confirm,
                   execution_result, turnHist, prompts, execLog, shellLog,
                   nLines, nAnswers, nCalls, fnVars>>

\* (variant) the observation is appended to the persisted history as well
\* as to the working transcript
ExecuteConfirmed_Persisted(o) ==
    /\ pc = "CONFIRMED"
    /\ LET r == TerminalExecute(cmd, o)
       IN  /\ execution_result' = r.result
           /\ shellLog' = shellLog \o r.shell
    /\ execLog' = Append(execLog, cmd)
    /\ messages' = Append(messages, Observation(execution_result'))
    /\ history' = Append(history, Observation(execution_result'))
    /\ pc' = "OBSERVATION_APPENDED"
    /\ UNCHANGED <<user_input, response, cmd, confirm, turnHist, prompts,
                   nLines, nAnswers, nCalls, fnVars>>

\* (variant) the observation is appended to the persisted history and not
\* to the working transcript
ExecuteConfirmed_HistoryOnly(o) ==
    /\ pc = "CONFIRMED"
    /\ LET r == TerminalExecute(cmd, o)
       IN  /\ execution_result' = r.result
           /\ shellLog' = shellLog \o r.shell
    /\ execLog' = Append(execLog, cmd)
    /\ history' = Append(history, Observation(execution_result'))
    /\ pc' = "OBSERVATION_APPENDED"
    /\ UNCHANGED <<messages, user_input, response, cmd, confirm, turnHist,
                   prompts, nLines, nAnswers, nCalls, fnVars>>

\* main.py:193-194 and 201-202: the command is executed and its result
\* appended as an observation
ExecuteConfirmed(o) ==
    /\ pc = "CONFIRMED"
    /\ LET r == TerminalExecute(cmd, o)
       IN  /\ execution_result' = r.result
           /\ shellLog' = shellLog \o r.shell
    /\ execLog' = Append(execLog, cmd)
    /\ messages' = Append(messages, Observation(execution_result'))
    /\ pc' = "OBSERVATION_APPENDED"
    /\ UNCHANGED <<history, user_input, response, cmd, confirm, turnHist,
                   prompts, nLines, nAnswers, nCalls, fnVars>>

\* (variant) the denial notice is appended to the persisted history too
DenyExecution_Persisted ==
    /\ pc = "DENIED"
    /\ execution_result' = DeniedMsg
    /\ messages' = Append(messages, Observation(execution_result'))
    /\ history' = Append(history, Observation(execution_result'))
    /\ pc' = "OBSERVATION_APPENDED"
    /\ UNCHANGED <<user_input, response, cmd, confirm, turnHist, prompts,
                   execLog, shellLog, nLines, nAnswers, nCalls, fnVars>>

\* (variant) a denial leaves the inner loop
DenyExecution_Break ==
    /\ pc = "DENIED"
    /\ execution_result' = DeniedMsg
    /\ pc' = "TURN_DONE"
    /\ UNCHANGED <<history, messages, user_input, response, cmd, confirm,
                   turnHist, prompts, execLog, shellLog, nLines, nAnswers,
                   nCalls, fnVars>>

\* main.py:196-197 and 201-202: the denial notice is appended instead
DenyExecution ==
    /\ pc = "DENIED"
    /\ execution_result' = DeniedMsg
    /\ messages' = Append(messages, Observation(execution_result'))
    /\ pc' = "OBSERVATION_APPENDED"
    /\ UNCHANGED <<history, user_input, response, cmd, confirm, turnHist,
                   prompts, execLog, shellLog, nLines, nAnswers, nCalls,
                   fnVars>>

Next ==
    \/ \E line \in UserLines : ReadUserInput(line)
    \/ UserPromptInterrupt
    \/ UserPromptEOF
    \/ \E reply \in BackendReplies : ChatModel(reply)
    \/ ParseResponse
    \/ EndTurn
    \/ \E line \in ConfirmLines : Confirm(line)
    \/ ConfirmPromptAbort
    \/ \E o \in ShellOutcomes : ExecuteConfirmed(o)
    \/ DenyExecution

Spec == Init /\ [][Next]_vars

\* The two calls that wait for an outside party other than the human end by
\* themselves: the shell call is bounded by timeout=30 (main.py:55), the
\* backend call by timeout=120 (main.py:103); appending the denial notice
\* is straight-line code.  Nothing makes the human type, so the two
\* prompts get no fairness.
FairSpec ==
    /\ Spec
    /\ WF_vars(\E reply \in BackendReplies : ChatModel(reply))
    /\ WF_vars(\E o \in ShellOutcomes : ExecuteConfirmed(o))
    /\ WF_vars(DenyExecution)

-----------------------------------------------------------------------------
(* The functions on their own: each specification draws an argument from a *)
(* bounded set of texts and applies the function once.                     *)

\* responses: every concatenation of at most MaxParseChunks of these
ParseChunks ==
    { OpenMarker, CloseMarker, <<"]">>, <<" ", "\n">>, <<"a">>, <<"b">> }
ParseTexts == {Flatten(cs) : cs \in SeqsUpTo(ParseChunks, MaxParseChunks)}

\* user inputs: every concatenation of at most MaxSelectChunks of these
SelectChunks ==
    { <<"S", "e">>, <<"D">>, <<"a", "w">>, <<"K">>, <<"x">>, <<"l", "o", "o", "p">> }
SelectTexts == {Flatten(cs) : cs \in SeqsUpTo(SelectChunks, MaxSelectChunks)}

\* commands: every concatenation of at most MaxCmdChunks of these
CmdChunks ==
    { <<"r", "m", " ", "-", "r", "f", " ">>, <<"/">>,
      <<"r", "m">>, <<" ", "-", "r", "f", " ", "/">>,
      <<"a">>,
      DenyList[2] }
CmdTexts == {Flatten(cs) : cs \in SeqsUpTo(CmdChunks, MaxCmdChunks)}

\* what the shell may do with a command
ExitCodes == {0, 3, -9}
Stdouts == { <<>>, <<"\n">>, <<" ", "h", "i", "\n">>, BlockedMsg }
Stderrs == { <<>>, <<"e">> }
ExecOutcomes ==
    {Completed(rc, out, err) : rc \in ExitCodes, out \in Stdouts, err \in Stderrs}
    \cup {TimedOut, Raised("[Errno 12] Cannot allocate memory")}

FnInit(f, args, outcomes) ==
    /\ SessionStart
    /\ fn = f
    /\ arg \in args
    /\ env \in outcomes
    /\ res = <<>>
    /\ done = FALSE

\* the action tag is searched in arg
ApplyParse ==
    /\ fn = "parse" /\ ~done
    /\ res' = ParseAction(arg)
    /\ done' = TRUE
    /\ UNCHANGED <<sessionVars, shellLog, fn, arg, env>>

\* get_relevant_context(arg)
ApplySelect ==
    /\ fn = "select" /\ ~done
    /\ res' = get_relevant_context(arg)
    /\ done' = TRUE
    /\ UNCHANGED <<sessionVars, shellLog, fn, arg, env>>

\* TerminalTool.execute(arg), the shell answering with env
ApplyExecute ==
    /\ fn = "execute" /\ ~done
    /\ LET r == TerminalExecute(arg, env)
       IN  /\ res' = r.result
           /\ shellLog' = shellLog \o r.shell
    /\ done' = TRUE
    /\ UNCHANGED <<sessionVars, fn, arg, env>>

ParseSpec == FnInit("parse", ParseTexts, {TimedOut}) /\ [][ApplyParse]_vars
SelectSpec == FnInit("select", SelectTexts, {TimedOut}) /\ [][ApplySelect]_vars
ExecSpec == FnInit("execute", CmdTexts, ExecOutcomes) /\ [][ApplyExecute]_vars

-----------------------------------------------------------------------------
(* Vocabulary of the properties, stated on the texts themselves.           *)

\* positions of the opening markers of t, and of the closing markers that
\* lie wholly after the opening marker at i
Opens(t) == {i \in 1..(Len(t) - 6) : SubSeq(t, i, i + 6) = OpenMarker}
ClosesAfter(t, i) ==
    {e \in (i + 7)..(Len(t) - 1) : SubSeq(t, e, e + 1) = CloseMarker}

\* t holds a directive: an opening marker with a closing marker after it
HasDirective(t) == \E i \in Opens(t) : ClosesAfter(t, i) # {}

\* the text between the first opening marker and the first closing marker
\* after it
FirstPayload(t) ==
    LET i == Min(Opens(t))
    IN  SubSeq(t, i + 7, Min(ClosesAfter(t, i)) - 1)

\* u is s without its leading and trailing whitespace
IsTrimOf(u, s) ==
    \E a \in 1..(Len(s) + 1) : \E b \in 0..Len(s) :
        /\ u = IF a > b THEN <<>> ELSE SubSeq(s, a, b)
        /\ \A k \in 1..(a - 1) : IsSpace(s[k])
        /\ \A k \in (b + 1)..Len(s) : IsSpace(s[k])
        /\ u # <<>> => ~IsSpace(u[1]) /\ ~IsSpace(u[Len(u)])

\* c is the command of the first directive of t
IsFirstDirectiveOf(c, t) == HasDirective(t) /\ IsTrimOf(c, FirstPayload(t))

\* p occurs in t, compared without regard to case
OccursIgnoringCase(t, p) ==
    \E n \in 0..(Len(t) - Len(p)) :
        \A k \in 1..Len(p) : LowerChar(t[n + k]) = LowerChar(p[k])

\* p occurs in t
Occurs(t, p) == \E n \in 0..(Len(t) - Len(p)) : SubSeq(t, n + 1, n + Len(p)) = p

\* the session is about to call the model
AtModelCall == pc \in {"CONTEXT_BUILT", "OBSERVATION_APPENDED"}

Last(q) == q[Len(q)]

-----------------------------------------------------------------------------
(* Properties.                                                             *)

\* C1: the Command Executor is called only in the step that follows an
\* affirmative answer at the confirmation prompt, and with the command the
\* prompt showed: the trimmed payload of the first directive of the most
\* recent model response.  There are never more executions than prompts
\* answered.
C1_ExecutionOnlyAfterConfirmation ==
    /\ [](Len(execLog) <= nAnswers /\ Len(execLog) <= Len(prompts))
    /\ [][ /\ pc' = "CONFIRMED" =>
                /\ pc = "ACTION_PENDING"
                /\ nAnswers' = nAnswers + 1
                /\ confirm' = <<"y">>
           /\ execLog' # execLog =>
                /\ pc = "CONFIRMED"
                /\ execLog' = Append(execLog, Last(prompts))
                /\ Last(history) = Msg("assistant", response)
                /\ Last(messages) = Msg("assistant", response)
                /\ IsFirstDirectiveOf(Last(prompts), response)
         ]_vars

\* C1 witness: the padded directive has been confirmed and executed
C1_Witness ==
    /\ pc = "OBSERVATION_APPENDED"
    /\ response = OneDirective
    /\ execLog = << <<"a">> >>
    /\ confirm = <<"y">>

\* C2: an answer other than the affirmative one leads to DENIED without a
\* call of the executor or of the shell; from DENIED the fixed denial notice
\* is appended to the working transcript as a user message, again without
\* any execution; and the next step is a model call.
C2_DenialSkipsExecutionAndContinues ==
    [][ /\ (pc = "ACTION_PENDING" /\ nAnswers' # nAnswers /\ confirm' # <<"y">>) =>
            /\ pc' = "DENIED"
            /\ UNCHANGED <<execLog, shellLog, messages>>
        /\ pc = "DENIED" =>
            /\ pc' = "OBSERVATION_APPENDED"
            /\ messages' = Append(messages,
                   [role |-> "user",
                    content |-> <<"COMMAND OUTPUT:\n", "User denied execution.">>])
            /\ UNCHANGED <<execLog, shellLog, history>>
        /\ (pc = "OBSERVATION_APPENDED" /\ execution_result = DeniedMsg) =>
            /\ pc' = "MODEL_CALLED"
            /\ nCalls' = nCalls + 1
            /\ UNCHANGED <<execLog, shellLog>>
      ]_vars

\* C2 witness: the model has been called again after a denial, and nothing
\* was executed
C2_Witness ==
    /\ pc = "MODEL_CALLED"
    /\ nCalls = 2
    /\ confirm = <<"n">>
    /\ execLog = <<>>
    /\ shellLog = <<>>
    /\ messages[Len(messages) - 1].content = <<"COMMAND OUTPUT:\n">> \o DeniedMsg

\* C3: from CONFIRMED the only step calls the executor and appends its
\* result, as an observation, to the working transcript as a user message;
\* from there the only step is a model call, which is handed that
\* observation as the last message, and no prompt or execution comes in
\* between; and once confirmed, the model call does come.
C3_ObservationThenModelCall ==
    /\ [][ /\ pc = "CONFIRMED" =>
                /\ pc' = "OBSERVATION_APPENDED"
                /\ execLog' = Append(execLog, cmd)
                /\ \E o \in ShellOutcomes :
                       execution_result' = TerminalExecute(cmd, o).result
                /\ messages' = Append(messages,
                       [role |-> "user",
                        content |-> <<"COMMAND OUTPUT:\n">> \o execution_result'])
                /\ UNCHANGED <<history, prompts, nCalls>>
           /\ pc = "OBSERVATION_APPENDED" =>
                /\ pc' = "MODEL_CALLED"
                /\ nCalls' = nCalls + 1
                /\ Last(messages).role = "user"
                /\ Last(messages).content = <<"COMMAND OUTPUT:\n">> \o execution_result
                /\ SubSeq(messages', 1, Len(messages)) = messages
                /\ UNCHANGED <<prompts, execLog, shellLog>>
         ]_vars
    /\ (pc = "CONFIRMED") ~> (pc = "MODEL_CALLED")

\* C3 witness: the model has been called again after an execution whose
\* output is the last-but-one message of the transcript
C3_Witness ==
    /\ pc = "MODEL_CALLED"
    /\ nCalls = 2
    /\ execLog = << <<"a">> >>
    /\ execution_result = TaggedOutput
    /\ messages[Len(messages) - 1] = Msg("user", <<"COMMAND OUTPUT:\n">> \o TaggedOutput)

\* C4: execute on a command that holds a deny-listed literal returns the
\* blocked result and never reaches the shell; on any other command the
\* shell is called exactly once, with that command.
C4_DenyListShortCircuits ==
    done =>
        IF \E k \in 1..Len(DenyList) : Occurs(arg, DenyList[k])
        THEN res = BlockedMsg /\ shellLog = <<>>
        ELSE shellLog = <<arg>>

\* C4 witness: a command that holds a deny-listed literal inside a longer
\* text has been refused, whatever the shell would have answered
C4_Witness ==
    /\ done
    /\ arg = DenyList[1] \o <<"a">>
    /\ env.kind = "completed" /\ env.returncode = 0
    /\ res = BlockedMsg
    /\ shellLog = <<>>

\* C5: a response that holds a directive leads to the confirmation prompt
\* and never ends the turn; a response that holds none leads to TURN_DONE
\* without a prompt or an execution, and from TURN_DONE the session goes
\* back to awaiting user input; TURN_DONE is entered in no other way.
C5_TurnEndsAtFirstResponseWithoutDirective ==
    [][ /\ pc = "MODEL_CALLED" =>
            IF HasDirective(response)
            THEN pc' = "ACTION_PENDING"
            ELSE pc' = "TURN_DONE" /\ UNCHANGED <<prompts, execLog, shellLog>>
        /\ pc = "TURN_DONE" =>
            pc' = "AWAITING_USER_INPUT" /\ UNCHANGED <<prompts, execLog, shellLog>>
        /\ pc' = "TURN_DONE" =>
            pc = "MODEL_CALLED" /\ ~HasDirective(response)
      ]_vars

\* C6: a line read at the user prompt that is an exit keyword, whatever its
\* case, terminates the session and leaves history, transcript and the
\* count of model calls as they were; any other line, the empty one
\* included, is appended to the history as a user message and the next step
\* is a model call.
C6_ExitKeywordsTerminateOtherLinesStartATurn ==
    [][ /\ nLines' # nLines =>
            IF \E k \in { <<"e", "x", "i", "t">>, <<"q", "u", "i", "t">>, <<"q">> } :
                   /\ Len(k) = Len(user_input')
                   /\ \A i \in 1..Len(k) : LowerChar(user_input'[i]) = k[i]
            THEN /\ pc' = "TERMINATED"
                 /\ UNCHANGED <<history, messages, nCalls>>
            ELSE /\ pc' = "CONTEXT_BUILT"
                 /\ history' = Append(history, [role |-> "user", content |-> user_input'])
                 /\ Last(messages') = [role |-> "user", content |-> user_input']
        /\ pc = "CONTEXT_BUILT" =>
            pc' = "MODEL_CALLED" /\ nCalls' = nCalls + 1
      ]_vars

\* C6 witness: after a turn begun by the empty line, which led to a model
\* call, the keyword typed in upper case has ended the session
C6_Witness ==
    /\ pc = "TERMINATED"
    /\ user_input = <<"Q">>
    /\ nLines = 2
    /\ history[1] = Msg("user", <<>>)
    /\ nCalls >= 1

\* C7: for every entry of the registry, the output holds the entry's body
\* once if one of its triggers occurs in the input without regard to case,
\* and not at all otherwise; the output is empty when no entry matches.
C7_BodyIncludedOnceIffTriggered ==
    done =>
        /\ \A n \in 1..Len(KNOWLEDGE_BASE) :
              Cardinality({i \in 1..Len(res) : res[i] = KNOWLEDGE_BASE[n].content})
              = IF \E k \in 1..Len(KNOWLEDGE_BASE[n].triggers) :
                       OccursIgnoringCase(arg, KNOWLEDGE_BASE[n].triggers[k])
                THEN 1 ELSE 0
        /\ (\A n \in 1..Len(KNOWLEDGE_BASE) :
               \A k \in 1..Len(KNOWLEDGE_BASE[n].triggers) :
                   ~OccursIgnoringCase(arg, KNOWLEDGE_BASE[n].triggers[k]))
           => res = <<>>

\* C7 witness: an input in mixed case that holds two triggers ("sed" and
\* "loop") has produced the body once
C7_Witness ==
    /\ done
    /\ arg = <<"S", "e", "D", "l", "o", "o", "p">>
    /\ res = <<"\n", KNOWLEDGE_BASE[1].content, "\n">>

\* C8: a text without an opening marker yields no directive; a text with
\* one opening and one closing marker, in this order, yields the text
\* between them, trimmed; a text with two or more marker pairs yields the
\* trimmed payload of the first pair; a text whose opening markers have no
\* closing marker after them yields no directive.  In general the result is
\* the trimmed text between the first opening marker and the first closing
\* marker after it.
C8_ParseFirstWellFormedDirective ==
    done =>
        LET opens == Opens(arg)
            closes == {e \in 1..(Len(arg) - 1) : SubSeq(arg, e, e + 1) = CloseMarker}
        IN  /\ opens = {} => ~res.matched
            /\ \A o \in opens : \A c \in closes :
                   (opens = {o} /\ closes = {c} /\ o + 7 <= c) =>
                       res.matched /\ IsTrimOf(res.cmd, SubSeq(arg, o + 7, c - 1))
            /\ \A o1 \in opens : \A c1 \in closes : \A o2 \in opens : \A c2 \in closes :
                   ( /\ o1 = Min(opens) /\ o1 + 7 <= c1
                     /\ \A c \in closes : c >= o1 + 7 => c1 <= c
                     /\ c1 + 2 <= o2 /\ o2 + 7 <= c2 ) =>
                       res.matched /\ IsTrimOf(res.cmd, SubSeq(arg, o1 + 7, c1 - 1))
            /\ (opens # {} /\ \A o \in opens : ClosesAfter(arg, o) = {}) => ~res.matched
            /\ res.matched <=> HasDirective(arg)
            /\ res.matched => IsTrimOf(res.cmd, FirstPayload(arg))

\* C8 witness: of two directives, the second with an empty payload, the
\* first one, padded with whitespace, has been returned trimmed
C8_Witness ==
    /\ done
    /\ arg = OpenMarker \o <<" ", "\n", "a">> \o CloseMarker
             \o OpenMarker \o CloseMarker
    /\ res = [matched |-> TRUE, cmd |-> <<"a">>]

\* C9: whenever the model is about to be called, the working transcript
\* starts with its only system message, whose content is the base
\* instructions, followed (under a fixed heading) by the disclosure selected
\* for the input of the current turn when there is one; then comes the
\* persisted history as it stood when the turn began, then the user message
\* of the turn; and a knowledge body appears nowhere in the transcript
\* unless the input of the current turn triggers it.
C9_TranscriptRebuiltEachTurn ==
    AtModelCall =>
        LET n == Len(turnHist)
            selected == get_relevant_context(user_input)
            Triggered(e) == \E k \in 1..Len(e.triggers) :
                                OccursIgnoringCase(user_input, e.triggers[k])
        IN  /\ Len(messages) >= n + 2
            /\ messages[1].role = "system"
            /\ \A k \in 2..Len(messages) : messages[k].role # "system"
            /\ messages[1].content =
                   IF selected = <<>> THEN <<"base_system_prompt">>
                   ELSE <<"base_system_prompt", "\n\n--- ACTIVE KNOWLEDGE ---\n">>
                        \o selected
            /\ SubSeq(messages, 2, n + 1) = turnHist
            /\ messages[n + 2] = [role |-> "user", content |-> user_input]
            /\ \A e \in {KNOWLEDGE_BASE[j] : j \in 1..Len(KNOWLEDGE_BASE)} :
                   \A k \in 1..Len(messages) :
                       (\E i \in 1..Len(messages[k].content) :
                            messages[k].content[i] = e.content)
                       => k = 1 /\ Triggered(e)

\* C9 witness: the first turn's input triggered the knowledge base, the
\* second turn's does not, and the model is about to be called in the
\* second turn with a system message that is the base instructions alone
C9_Witness ==
    /\ pc = "CONTEXT_BUILT"
    /\ Len(turnHist) >= 2
    /\ turnHist[1] = Msg("user", TaggedLine)
    /\ user_input = <<>>
    /\ messages[1] = Msg("system", base_system_prompt)

\* C10 as claimed: for a command the shell ran to completion, a non-zero
\* exit code gives the error text with the exit code and stderr; exit code
\* zero with empty stdout gives the "no output" text; exit code zero with
\* non-empty stdout gives stdout verbatim.
C10_AsClaimed ==
    (done /\ shellLog # <<>> /\ env.kind = "completed") =>
        /\ env.returncode # 0 =>
               res = <<"Execution Error (Exit Code ", ToString(env.returncode), "):\n">>
                     \o env.stderr
        /\ (env.returncode = 0 /\ env.stdout = <<>>) =>
               res = <<"Command executed successfully (no output). Stderr: ">>
                     \o env.stderr
        /\ (env.returncode = 0 /\ env.stdout # <<>>) => res = env.stdout

\* C10 amended: as above, but the "no output" text is given whenever stdout
\* holds nothing but whitespace, and stdout is returned verbatim only when
\* it holds a character that is not whitespace.
C10_FormatByExitCodeAndStdout ==
    (done /\ shellLog # <<>> /\ env.kind = "completed") =>
        LET blank == \A i \in 1..Len(env.stdout) : IsSpace(env.stdout[i])
        IN  /\ env.returncode # 0 =>
                   res = <<"Execution Error (Exit Code ", ToString(env.returncode), "):\n">>
                         \o env.stderr
            /\ (env.returncode = 0 /\ blank) =>
                   res = <<"Command executed successfully (no output). Stderr: ">>
                         \o env.stderr
            /\ (env.returncode = 0 /\ ~blank) => res = env.stdout

\* C10 witness: a command that printed a newline only and exited with zero
\* has been given the "no output" text
C10_Witness ==
    /\ done
    /\ shellLog = <<arg>>
    /\ env = Completed(0, <<"\n">>, <<"e">>)
    /\ res = <<"Command executed successfully (no output). Stderr: ", "e">>

\* C11: whatever the backend or the shell does, the value a model call
\* returns is a text and is appended to the conversation as the assistant
\* message, the result of an execution is appended to the conversation as
\* an observation, and the session goes on: after a model call the response
\* is parsed and leads to the confirmation prompt or to the end of the
\* turn, after an execution the model is called again.  No step that
\* follows a call of the backend or of the shell ends the session.
C11_FailuresBecomeTextAndSessionContinues ==
    [][ /\ nCalls' # nCalls =>
            /\ response' # <<"None">>
            /\ Last(messages') = [role |-> "assistant", content |-> response']
            /\ pc' = "MODEL_CALLED"
        /\ pc = "MODEL_CALLED" => pc' \in {"ACTION_PENDING", "TURN_DONE"}
        /\ pc = "CONFIRMED" =>
            /\ Last(messages') =
                   [role |-> "user",
                    content |-> <<"COMMAND OUTPUT:\n">> \o execution_result']
            /\ pc' = "OBSERVATION_APPENDED"
        /\ pc = "OBSERVATION_APPENDED" => pc' = "MODEL_CALLED"
      ]_vars

\* the leading markers of the error results of execute: the first unit of
\* the blocked text and of the timeout text, and the two prefixes
ErrorMarkers ==
    { "Error: High-risk command blocked by safety filter.",
      "Error: Command timed out after 30 seconds.",
      "Execution Error (Exit Code ",
      "Error executing command: " }
StartsWithErrorMarker(t) == t # <<>> /\ t[1] \in ErrorMarkers

\* C12: the result of a timeout differs from the result of every non-zero
\* exit; and the result starts with an error marker exactly when the
\* command was blocked, timed out or failed, so that the result of a
\* command that succeeded never starts with one, whatever it printed.
C12_ResultIdentifiesOutcomeKind ==
    done =>
        LET ran == shellLog # <<>>
            succeeded == ran /\ env.kind = "completed" /\ env.returncode = 0
        IN  /\ (ran /\ env.kind = "timeout") =>
                   \A rc \in ExitCodes \ {0} : \A err \in Stderrs :
                       res # <<"Execution Error (Exit Code ", ToString(rc), "):\n">>
                             \o err
            /\ ~succeeded => StartsWithErrorMarker(res)
            /\ succeeded => ~StartsWithErrorMarker(res)

\* m is an observation message: a user message that starts with the
\* heading of a command output
IsObservation(m) ==
    /\ m.role = "user"
    /\ m.content # <<>>
    /\ m.content[1] = "COMMAND OUTPUT:\n"

\* C13: a model call appends the value it returned, as an assistant
\* message, to the persisted history and to the working transcript; the
\* step that follows a confirmation or a denial appends an observation to
\* the working transcript and leaves the persisted history as it is; and
\* the persisted history always holds user and assistant messages only,
\* none of them an observation, with one assistant message per model call.
C13_HistoryHoldsInputsAndResponsesOnly ==
    /\ [](/\ \A k \in 1..Len(history) :
                /\ history[k].role \in {"user", "assistant"}
                /\ ~IsObservation(history[k])
          /\ Cardinality({k \in 1..Len(history) : history[k].role = "assistant"})
             = nCalls)
    /\ [][ /\ nCalls' # nCalls =>
                /\ history' = Append(history,
                       [role |-> "assistant", content |-> response'])
                /\ messages' = Append(messages,
                       [role |-> "assistant", content |-> response'])
           /\ pc \in {"CONFIRMED", "DENIED"} =>
                /\ Len(messages') = Len(messages) + 1
                /\ SubSeq(messages', 1, Len(messages)) = messages
                /\ IsObservation(Last(messages'))
                /\ history' = history
         ]_vars

\* C13 witness: a command was executed and the model called again; the
\* transcript holds the observation between the two responses, the history
\* holds the user message and the two responses
C13_Witness ==
    /\ pc = "MODEL_CALLED"
    /\ nCalls = 2
    /\ execLog # <<>>
    /\ Len(messages) = 5
    /\ IsObservation(messages[4])
    /\ history = <<messages[2], messages[3], messages[5]>>

\* the transitions of the session loop that stay within the session
LoopTransitions ==
    { <<"AWAITING_USER_INPUT", "CONTEXT_BUILT">>,
      <<"CONTEXT_BUILT", "MODEL_CALLED">>,
      <<"MODEL_CALLED", "ACTION_PENDING">>,
      <<"MODEL_CALLED", "TURN_DONE">>,
      <<"ACTION_PENDING", "CONFIRMED">>,
      <<"ACTION_PENDING", "DENIED">>,
      <<"CONFIRMED", "OBSERVATION_APPENDED">>,
      <<"DENIED", "OBSERVATION_APPENDED">>,
      <<"OBSERVATION_APPENDED", "MODEL_CALLED">>,
      <<"TURN_DONE", "AWAITING_USER_INPUT">> }

\* C14: every step of the session is one of the transitions of the loop,
\* or it ends the process from AWAITING_USER_INPUT upon a line read at the
\* user prompt that is an exit keyword; the process ends in no other way,
\* in particular not from inside a turn.
C14_OnlyLoopTransitionsAndQuitFromPrompt ==
    [][ \/ <<pc, pc'>> \in LoopTransitions
        \/ /\ pc = "AWAITING_USER_INPUT"
           /\ pc' = "TERMINATED"
           /\ nLines' = nLines + 1
           /\ Lower(user_input') \in { <<"e", "x", "i", "t">>, <<"q", "u", "i", "t">>, <<"q">> }
      ]_vars

\* C15: a response that holds a directive always leads to the confirmation
\* prompt; an answer there, whatever it is, leads through the observation
\* to one more model call of the same turn; and TURN_DONE is entered only
\* upon a response that holds no directive.  So as long as every response
\* holds a directive the turn goes on calling the model and does not end.
C15_TurnEndsOnlyOnResponseWithoutDirective ==
    [][ /\ (pc = "MODEL_CALLED" /\ HasDirective(response)) =>
            pc' = "ACTION_PENDING"
        /\ nAnswers' # nAnswers =>
            /\ pc = "ACTION_PENDING"
            /\ pc' \in {"CONFIRMED", "DENIED"}
        /\ pc \in {"CONFIRMED", "DENIED"} => pc' = "OBSERVATION_APPENDED"
        /\ pc = "OBSERVATION_APPENDED" =>
            /\ pc' = "MODEL_CALLED"
            /\ nCalls' = nCalls + 1
            /\ UNCHANGED <<nLines, turnHist>>
        /\ pc' = "TURN_DONE" =>
            /\ pc = "MODEL_CALLED"
            /\ ~HasDirective(response)
      ]_vars

\* C15 witness: in the first turn every response has held a directive; the
\* human has confirmed once and denied once, and the model has been called
\* a third time and proposes yet another command
C15_Witness ==
    /\ pc = "ACTION_PENDING"
    /\ nLines = 1
    /\ nCalls = MaxConfirms + 1
    /\ nAnswers = MaxConfirms
    /\ Len(execLog) = 1
    /\ Len(prompts) = nCalls
    /\ HasDirective(response)

\* the messages of q, in order, are found in r, in order
RECURSIVE InOrderWithin(_, _)
InOrderWithin(q, r) ==
    IF q = <<>> THEN TRUE
    ELSE IF r = <<>> THEN FALSE
    ELSE IF Head(q) = Head(r) THEN InOrderWithin(Tail(q), Tail(r))
    ELSE InOrderWithin(q, Tail(r))

NotSystem(m) == m.role # "system"
Replayed(m) == m.role # "system" /\ ~IsObservation(m)

\* a new turn begins: the transcript of the turn before is replaced by the
\* transcript of the first model call of this turn
NewTurnBegins == pc = "AWAITING_USER_INPUT" /\ pc' = "CONTEXT_BUILT"

\* C16 as claimed: when a new turn begins, every message of the transcript
\* of the turn before that is not the system message is found, in the same
\* order, in the transcript of the first model call of the new turn.
C16_AsClaimed ==
    [][ NewTurnBegins => InOrderWithin(SelectSeq(messages, NotSystem), messages')
      ]_vars

\* C16 amended: when a new turn begins, the messages of the transcript of
\* the turn before that are neither the system message nor an observation
\* stand, in the same order and with nothing in between, right after the
\* system message of the transcript of the first model call of the new
\* turn, followed by the new user message only; the observations of the
\* turn before are in that transcript nowhere.
C16_ReplayWithoutObservations ==
    [][ NewTurnBegins =>
            LET kept == SelectSeq(messages, Replayed)
            IN  /\ Len(messages') = Len(kept) + 2
                /\ SubSeq(messages', 2, Len(kept) + 1) = kept
                /\ Last(messages') = [role |-> "user", content |-> user_input']
                /\ \A k \in 1..Len(messages') : ~IsObservation(messages'[k])
      ]_vars

\* C16 witness: the first turn ran a command and ended on a final answer;
\* the second turn has begun with a transcript of the system message, the
\* three messages of the history and the new user message
C16_Witness ==
    /\ pc = "CONTEXT_BUILT"
    /\ nLines = 2
    /\ Len(execLog) = 1
    /\ execution_result = TaggedOutput
    /\ Len(turnHist) = 3
    /\ Len(messages) = 5
    /\ SubSeq(messages, 2, 4) = turnHist

\* C17: an answer read at the confirmation prompt leads to CONFIRMED when,
\* lower-cased, it is the single token "y", and to DENIED otherwise: the
\* empty answer, a longer word that starts with "y" and an exit keyword are
\* denials like any other.  A denial calls neither the executor nor the
\* shell, puts the denial notice in place of an output, and the session
\* goes on to the next model call instead of ending.
C17_ConfirmationFailsClosed ==
    [][ /\ nAnswers' # nAnswers =>
            /\ \A i \in 1..Len(confirm') : LowerChar(confirm'[i]) = confirm'[i]
            /\ IF Len(confirm') = 1 /\ confirm'[1] = "y"
               THEN pc' = "CONFIRMED"
               ELSE pc' = "DENIED"
            /\ UNCHANGED <<execLog, shellLog, nLines>>
        /\ pc = "DENIED" =>
            /\ pc' = "OBSERVATION_APPENDED"
            /\ execution_result' = <<"User denied execution.">>
            /\ UNCHANGED <<execLog, shellLog, cmd, prompts>>
        /\ (pc = "OBSERVATION_APPENDED" /\ confirm # <<"y">>) =>
            /\ pc' = "MODEL_CALLED"
            /\ UNCHANGED <<execLog, shellLog>>
      ]_vars

\* C17 witness: the proposed command was answered with an exit keyword;
\* nothing was executed, the denial notice was appended and the model has
\* been called again
C17_Witness ==
    /\ pc = "MODEL_CALLED"
    /\ confirm = <<"q">>
    /\ nAnswers = 1
    /\ nCalls = 2
    /\ execLog = <<>>
    /\ shellLog = <<>>
    /\ execution_result = DeniedMsg

NotObservation(m) == ~IsObservation(m)

\* C18: whenever the model is about to be called or has just been called,
\* and when the turn has ended, the working transcript starts with a system
\* message, and what follows it, the observations left out, is the
\* persisted history, message for message; and the persisted history only
\* grows at its end, so that each value it had is a prefix of every later
\* one, the value at the start of the current turn included.
C18_TranscriptMinusObservationsIsHistory ==
    /\ [](pc \in {"CONTEXT_BUILT", "OBSERVATION_APPENDED", "MODEL_CALLED",
                  "TURN_DONE"} =>
              /\ messages # <<>>
              /\ messages[1].role = "system"
              /\ SelectSeq(Tail(messages), NotObservation) = history
              /\ Len(turnHist) < Len(history)
              /\ SubSeq(history, 1, Len(turnHist)) = turnHist)
    /\ [][ /\ Len(history') >= Len(history)
           /\ SubSeq(history', 1, Len(history)) = history
         ]_vars

\* C18 witness: the second turn has ended after a command was executed in
\* it; the transcript holds seven messages, the observation the sixth, and
\* the history the five others that are not the system message
C18_Witness ==
    /\ pc = "TURN_DONE"
    /\ nLines = 2
    /\ Len(execLog) = 1
    /\ Len(messages) = 7
    /\ IsObservation(messages[6])
    /\ Len(history) = 5
    /\ Len(turnHist) = 2

\* C19: a command is put to the human only in the step that parses a model
\* response, only when that response holds a directive, and it is the
\* command of that response's first directive; reading a line at the user
\* prompt and appending an observation put no command to the human and
\* execute nothing, whatever the line or the output holds, and are followed
\* by a model call; and a command is executed only if it is the one last
\* put to the human and the human confirmed it.
C19_DirectivesOnlyFromModelResponses ==
    [][ /\ prompts' # prompts =>
            /\ pc = "MODEL_CALLED"
            /\ Last(messages) = [role |-> "assistant", content |-> response]
            /\ HasDirective(response)
            /\ Len(prompts') = Len(prompts) + 1
            /\ IsFirstDirectiveOf(Last(prompts'), response)
            /\ execLog' = execLog
        /\ (pc = "MODEL_CALLED" /\ ~HasDirective(response)) =>
            /\ pc' # "ACTION_PENDING"
            /\ UNCHANGED <<prompts, execLog, shellLog>>
        /\ nLines' # nLines =>
            /\ pc' \in {"CONTEXT_BUILT", "TERMINATED"}
            /\ UNCHANGED <<prompts, execLog, shellLog, cmd>>
        /\ pc \in {"CONTEXT_BUILT", "OBSERVATION_APPENDED"} =>
            /\ pc' = "MODEL_CALLED"
            /\ UNCHANGED <<prompts, execLog, shellLog, cmd>>
        /\ execLog' # execLog =>
            /\ confirm = <<"y">>
            /\ execLog' = Append(execLog, Last(prompts))
            /\ prompts' = prompts
      ]_vars

\* C19 witness: the user's line held an action tag, the model proposed
\* another command, which was confirmed and whose output held an action tag
\* too, and the model then gave a final answer: the turn has ended with one
\* command put to the human and executed, the model's
C19_Witness ==
    /\ pc = "TURN_DONE"
    /\ HasDirective(user_input)
    /\ HasDirective(execution_result)
    /\ ~HasDirective(response)
    /\ prompts = << <<"a">> >>
    /\ execLog = << <<"a">> >>

=============================================================================
